---- MODULE Spec2Model ----
(***************************************************************************)
(* carch-go: the process orchestration of the API process (cmd/api main:   *)
(* two Run goroutines, the termination select, the bounded parallel        *)
(* shutdown of the HTTP and gRPC servers) and of the worker process        *)
(* (cmd/worker main and Worker.Run).                                       *)
(*                                                                         *)
(* Goroutines are modelled as program counters; every action is one        *)
(* atomic step of one goroutine or of the environment (OS signals, the     *)
(* deadline timer, clients, the broker).  Go channels are sequences with   *)
(* their capacity; a select with several ready cases is a nondeterministic *)
(* choice between the enabled receive actions.                             *)
(***************************************************************************)
EXTENDS Integers, Sequences, FiniteSets, TLC

(***************************************************************************)
(* Bounds of the model.                                                    *)
(***************************************************************************)
MaxInflight == 1     \* in-flight requests/calls per server
MaxSignals == 2      \* OS signals delivered to a process
MaxMsgs == 3         \* deliveries the broker sends to the worker
MaxHandled == 5      \* receives of Worker.Run the model follows
MaxFirings == 2      \* firings of the scheduler's timer the model follows
MaxEmailLen == 4     \* characters of an email in a create payload
MaxUsers == 2        \* users the store is asked to insert
MaxClock == 2        \* readings of the wall clock: 1..MaxClock

(***************************************************************************)
(* Program constants.                                                      *)
(***************************************************************************)
\* A capacity that would hold the error of one Run goroutine only.
ServerErrorsCapOne == 2 - 1

ServerErrorsCap == 2     \* make(chan error, 2)
QuitCap == 1             \* make(chan os.Signal, 1)
ShutdownErrorsCap == 2   \* make(chan error, 2)
ShutdownDoneCap == 2     \* make(chan struct{}, 2)
ShutdownLoopCount == 2   \* for i := 0; i < 2; i++

Components == {"http", "grpc"}

VARIABLES
    \* ---- API process: main goroutine
    mainPc,          \* position of main
    loopI,           \* the i of the shutdown wait loop
    trigger,         \* what ended the termination select: none/error/signal
    mainLog,         \* what main logged: sequence of <<message, component>>
    exitCode,        \* -1 while running, else the exit status
    \* ---- API process: Run goroutines and the servers
    runPc,           \* per component: position of the goroutine running Run
    runErr,          \* per component: what Run returned
    runCalls,        \* per component: number of invocations of Run
    serverErrors,    \* chan error (cap 2), entries tagged by sender
    httpInShutdown,  \* http.Server.inShutdown
    httpLnErr,       \* result of closing the HTTP listeners in Shutdown
    grpcStopped,     \* grpc.Server: quit fired, s.lis == nil
    grpcConnsNil,    \* grpc.Server: s.conns == nil (a stop has completed)
    listener,        \* per component: none/open/closed
    active,          \* per component: in-flight requests/calls
    accepted,        \* per component: has ever accepted a connection
    \* ---- API process: signals
    notified,        \* signal.Notify registered
    quit,            \* chan os.Signal (cap 1)
    sigCount,        \* signals delivered so far
    \* ---- API process: shutdown
    ctxCreated,      \* shutdownCtx exists
    deadlineFired,   \* shutdownCtx.Done() is closed
    sdPc,            \* per component: position of the shutdown goroutine
    sdRes,           \* per component: what Shutdown returned
    sdCalls,         \* per component: number of invocations of Shutdown
    sdOnStarted,     \* per component: was the component serving when Shutdown was invoked
    helperPc,        \* the GracefulStop goroutine of grpc Server.Shutdown
    doneClosed,      \* the done channel of grpc Server.Shutdown is closed
    forced,          \* per component: it has been force-stopped
    shutdownErrors,  \* chan error (cap 2), entries tagged by sender
    shutdownDone,    \* chan struct{} (cap 2), entries tagged by sender
    \* ---- worker process: main goroutine
    wMainPc,         \* position of main
    wExit,           \* -1 while running, else the exit status
    wNotified,       \* signal.Notify registered
    wQuit,           \* chan os.Signal (cap 1)
    wSigCount,       \* signals delivered so far
    wCancelled,      \* ctx.Done() is closed
    \* ---- worker process: the goroutine running Worker.Run
    wRunPc,          \* position of Worker.Run
    wRunRes,         \* what Worker.Run returned
    wCur,            \* the delivery being handled (0: the zero value)
    wProcessed,      \* deliveries whose processing step ran, in order
    wAcks,           \* acknowledgment attempts <<delivery, ok>>, in order
    wErrLogs,        \* number of "Error processing message" log lines
    \* ---- worker process: the message queue
    mqCloseCalls,    \* number of invocations of RabbitMQ.Close
    mqClosed,        \* the AMQP channel/connection is closed
    subscribed,      \* Consume("tasks") succeeded
    stream,          \* deliveries waiting on the channel Consume returned
    streamClosed,    \* that channel is closed
    nextMsg,         \* the next delivery the broker sends
    \* ---- scheduler process: main goroutine
    sMainPc,         \* position of main
    sExit,           \* -1 while running, else the exit status
    sNotified,       \* signal.Notify registered
    sQuit,           \* chan os.Signal (cap 1)
    sSigCount,       \* signals delivered so far
    sCancelled,      \* ctx.Done() is closed
    \* ---- scheduler process: the goroutine running Scheduler.Run and cron
    sRunPc,          \* position of Scheduler.Run
    cronRunning,     \* cron.Cron.running
    cronLoop,        \* the timer loop goroutine of cron: none/starting/looping/stopped
    jobActive,       \* per task: callbacks executing
    fired,           \* firings so far
    firedAfterStop,  \* firings begun after Stop had returned
    interrupted,     \* callbacks ended by something other than their own return
    \* ---- Handler.createUser run against a User Service double
    cr,              \* the last run: its request, the double's answer, the response
    \* ---- the HTTP handlers over the User Service, the repository and the store
    users,           \* the users table: id -> row, for the ids it holds
    nextId,          \* number of ids the repository has generated
    last,            \* the last request, what the table held of its id, its response
    delOk,           \* per id: number of delete requests answered 204
    now,             \* the wall clock: what time.Now() returned last
    \* ---- API process: the startup of main and its deferred calls
    stPc,            \* position of main in its startup and teardown
    stExit,          \* -1 while running, else the exit status
    dbConn,          \* per attempt: the *sqlx.DB it opened: none/open/closed
    dbCloseCalls,    \* per attempt: Close calls on that *sqlx.DB
    stDb,            \* the attempt whose handle main holds in db, 0 for none
    amqpConn,        \* per attempt: the amqp connection: none/open/closed
    amqpCloseCalls,  \* per attempt: Close calls on that connection
    stMq             \* the attempt whose RabbitMQ main holds, 0 for none

mainVars == <<mainPc, loopI, trigger, mainLog, exitCode>>
runVars == <<runPc, runErr, runCalls, serverErrors>>
srvVars == <<httpInShutdown, httpLnErr, grpcStopped, grpcConnsNil, listener, active, accepted>>
sigVars == <<notified, quit, sigCount>>
ctxVars == <<ctxCreated, deadlineFired>>
sdVars == <<sdPc, sdRes, sdCalls, sdOnStarted, helperPc, doneClosed, forced, shutdownErrors, shutdownDone>>

apiVars == <<mainVars, runVars, srvVars, sigVars, ctxVars, sdVars>>

wMainVars == <<wMainPc, wExit, wNotified, wQuit, wSigCount, wCancelled>>
wRunVars == <<wRunPc, wRunRes, wCur, wProcessed, wAcks, wErrLogs>>
mqVars == <<mqCloseCalls, mqClosed, subscribed, stream, streamClosed, nextMsg>>

workerVars == <<wMainVars, wRunVars, mqVars>>

\* What the actions of one process leave alone: the other processes.
sMainVars == <<sMainPc, sExit, sNotified, sQuit, sSigCount, sCancelled>>
cronVars == <<sRunPc, cronRunning, cronLoop, jobActive, fired, firedAfterStop, interrupted>>

schedVars == <<sMainVars, cronVars>>

createVars == <<cr>>
crudVars == <<users, nextId, last, delOk, now>>
startVars == <<stPc, stExit, dbConn, dbCloseCalls, stDb, amqpConn, amqpCloseCalls, stMq>>

nonApiVars == <<workerVars, schedVars, createVars, crudVars, startVars>>
nonWorkerVars == <<apiVars, schedVars, createVars, crudVars, startVars>>
nonSchedVars == <<apiVars, workerVars, createVars, crudVars, startVars>>
nonCreateVars == <<apiVars, workerVars, schedVars, crudVars, startVars>>
nonCrudVars == <<apiVars, workerVars, schedVars, createVars, startVars>>
nonStartVars == <<apiVars, workerVars, schedVars, createVars, crudVars>>

vars == <<apiVars, workerVars, schedVars, createVars, crudVars, startVars>>

(***************************************************************************)
(* The state after construction: cmd/api main has built both servers and   *)
(* is about to make serverErrors and start the Run goroutines.             *)
(***************************************************************************)
ApiInit ==
    /\ mainPc = "goHTTP"
    /\ loopI = 0
    /\ trigger = "none"
    /\ mainLog = <<>>
    /\ exitCode = -1
    /\ runPc = [c \in Components |-> "none"]
    /\ runErr = [c \in Components |-> "none"]
    /\ runCalls = [c \in Components |-> 0]
    /\ serverErrors = <<>>
    /\ httpInShutdown = FALSE
    /\ httpLnErr = "nil"
    /\ grpcStopped = FALSE
    /\ grpcConnsNil = FALSE
    /\ listener = [c \in Components |-> "none"]
    /\ active = [c \in Components |-> 0]
    /\ accepted = [c \in Components |-> FALSE]
    /\ notified = FALSE
    /\ quit = <<>>
    /\ sigCount = 0
    /\ ctxCreated = FALSE
    /\ deadlineFired = FALSE
    /\ sdPc = [c \in Components |-> "none"]
    /\ sdRes = [c \in Components |-> "none"]
    /\ sdCalls = [c \in Components |-> 0]
    /\ sdOnStarted = [c \in Components |-> FALSE]
    /\ helperPc = "none"
    /\ doneClosed = FALSE
    /\ forced = [c \in Components |-> FALSE]
    /\ shutdownErrors = <<>>
    /\ shutdownDone = <<>>

\* The process is alive: once main has returned every goroutine is gone.
ApiRunning == mainPc # "exited"

(***************************************************************************)
(* cmd/api main, lines 126-160: start the Run goroutines, register for     *)
(* signals, wait for the first fatal error or signal.                      *)
(***************************************************************************)
\* go func() { ... httpServer.Run() ... }()
MainGoHTTP ==
    /\ mainPc = "goHTTP"
    /\ mainPc' = "goGRPC"
    /\ runPc' = [runPc EXCEPT !["http"] = "spawned"]
    /\ UNCHANGED <<loopI, trigger, mainLog, exitCode, runErr, runCalls, serverErrors>>
    /\ UNCHANGED <<srvVars, sigVars, ctxVars, sdVars>>
    /\ UNCHANGED nonApiVars

\* go func() { ... grpcServer.Run() ... }()
MainGoGRPC ==
    /\ mainPc = "goGRPC"
    /\ mainPc' = "notify"
    /\ runPc' = [runPc EXCEPT !["grpc"] = "spawned"]
    /\ UNCHANGED <<loopI, trigger, mainLog, exitCode, runErr, runCalls, serverErrors>>
    /\ UNCHANGED <<srvVars, sigVars, ctxVars, sdVars>>
    /\ UNCHANGED nonApiVars

\* quit := make(chan os.Signal, 1); signal.Notify(quit, SIGINT, SIGTERM)
MainNotify ==
    /\ mainPc = "notify"
    /\ mainPc' = "wait"
    /\ notified' = TRUE
    /\ UNCHANGED <<loopI, trigger, mainLog, exitCode, quit, sigCount>>
    /\ UNCHANGED <<runVars, srvVars, ctxVars, sdVars>>
    /\ UNCHANGED nonApiVars

\* The OS delivers SIGINT or SIGTERM to the process.  The signal package
\* sends without blocking: a signal that finds the channel full is dropped.
\* (Before signal.Notify the default disposition ends the process outside
\* the program's control; the model starts delivering once it is registered.)
SignalArrives ==
    /\ ApiRunning
    /\ notified
    /\ sigCount < MaxSignals
    /\ sigCount' = sigCount + 1
    /\ quit' = IF Len(quit) < QuitCap THEN Append(quit, "sig") ELSE quit
    /\ UNCHANGED notified
    /\ UNCHANGED <<mainVars, runVars, srvVars, ctxVars, sdVars>>
    /\ UNCHANGED nonApiVars

\* select { case err := <-serverErrors: log.Error("Server error", ...)
MainWaitErr ==
    /\ mainPc = "wait"
    /\ serverErrors # <<>>
    /\ serverErrors' = Tail(serverErrors)
    /\ trigger' = "error"
    /\ mainLog' = Append(mainLog, <<"Server error", Head(serverErrors)>>)
    /\ mainPc' = "ctx"
    /\ UNCHANGED <<loopI, exitCode, runPc, runErr, runCalls>>
    /\ UNCHANGED <<srvVars, sigVars, ctxVars, sdVars>>
    /\ UNCHANGED nonApiVars

\*          case sig := <-quit: log.Info("Received signal", ...) }
MainWaitSig ==
    /\ mainPc = "wait"
    /\ quit # <<>>
    /\ quit' = Tail(quit)
    /\ trigger' = "signal"
    /\ mainLog' = Append(mainLog, <<"Received signal", "">>)
    /\ mainPc' = "ctx"
    /\ UNCHANGED <<loopI, exitCode, notified, sigCount>>
    /\ UNCHANGED <<runVars, srvVars, ctxVars, sdVars>>
    /\ UNCHANGED nonApiVars

(***************************************************************************)
(* cmd/api main, lines 162-197: the shutdown sequence.                     *)
(***************************************************************************)
\* log "Shutting down servers"; shutdownCtx with the 30 s timeout;
\* shutdownErrors and shutdownDone are made.
MainCtx ==
    /\ mainPc = "ctx"
    /\ mainPc' = "goSdHTTP"
    /\ mainLog' = Append(mainLog, <<"Shutting down servers", "">>)
    /\ ctxCreated' = TRUE
    /\ shutdownErrors' = <<>>
    /\ shutdownDone' = <<>>
    /\ UNCHANGED <<loopI, trigger, exitCode, deadlineFired>>
    /\ UNCHANGED <<sdPc, sdRes, sdCalls, sdOnStarted, helperPc, doneClosed, forced>>
    /\ UNCHANGED <<runVars, srvVars, sigVars>>
    /\ UNCHANGED nonApiVars

\* go func() { httpServer.Shutdown(shutdownCtx) ... }()
MainGoShutdownHTTP ==
    /\ mainPc = "goSdHTTP"
    /\ mainPc' = "goSdGRPC"
    /\ sdPc' = [sdPc EXCEPT !["http"] = "start"]
    /\ UNCHANGED <<loopI, trigger, mainLog, exitCode>>
    /\ UNCHANGED <<sdRes, sdCalls, sdOnStarted, helperPc, doneClosed, forced, shutdownErrors, shutdownDone>>
    /\ UNCHANGED <<runVars, srvVars, sigVars, ctxVars>>
    /\ UNCHANGED nonApiVars

\* go func() { grpcServer.Shutdown(shutdownCtx) ... }(); i := 0
MainGoShutdownGRPC ==
    /\ mainPc = "goSdGRPC"
    /\ mainPc' = "loop"
    /\ loopI' = 0
    /\ sdPc' = [sdPc EXCEPT !["grpc"] = "start"]
    /\ UNCHANGED <<trigger, mainLog, exitCode>>
    /\ UNCHANGED <<sdRes, sdCalls, sdOnStarted, helperPc, doneClosed, forced, shutdownErrors, shutdownDone>>
    /\ UNCHANGED <<runVars, srvVars, sigVars, ctxVars>>
    /\ UNCHANGED nonApiVars

\* select { case err := <-shutdownErrors: log.Error("Shutdown error", err)
MainLoopRecvErr ==
    /\ mainPc = "loop"
    /\ loopI < ShutdownLoopCount
    /\ shutdownErrors # <<>>
    /\ shutdownErrors' = Tail(shutdownErrors)
    /\ mainLog' = Append(mainLog, <<"Shutdown error", Head(shutdownErrors)>>)
    /\ loopI' = loopI + 1
    /\ UNCHANGED <<mainPc, trigger, exitCode>>
    /\ UNCHANGED <<sdPc, sdRes, sdCalls, sdOnStarted, helperPc, doneClosed, forced, shutdownDone>>
    /\ UNCHANGED <<runVars, srvVars, sigVars, ctxVars>>
    /\ UNCHANGED nonApiVars

\*          case <-shutdownDone: log.Info("Server shutdown completed successfully") }
MainLoopRecvDone ==
    /\ mainPc = "loop"
    /\ loopI < ShutdownLoopCount
    /\ shutdownDone # <<>>
    /\ shutdownDone' = Tail(shutdownDone)
    /\ mainLog' = Append(mainLog, <<"Server shutdown completed successfully", "">>)
    /\ loopI' = loopI + 1
    /\ UNCHANGED <<mainPc, trigger, exitCode>>
    /\ UNCHANGED <<sdPc, sdRes, sdCalls, sdOnStarted, helperPc, doneClosed, forced, shutdownErrors>>
    /\ UNCHANGED <<runVars, srvVars, sigVars, ctxVars>>
    /\ UNCHANGED nonApiVars

\* A main that would go back to its termination wait after a shutdown.
MainAfterLoopPcWaitAgain == "wait"

\* Where main goes when the wait loop is over: it returns.
MainAfterLoopPc == "exited"

\* The exit status of a main that returns.
MainReturnStatus == 0

\* The loop is over: log "Servers gracefully stopped", return from main (the
\* deferred shutdownCancel, messageQueue.Close and db.Close run), the process
\* exits with status 0 and every other goroutine ends with it.
MainFinish ==
    /\ mainPc = "loop"
    /\ loopI >= ShutdownLoopCount
    /\ mainLog' = Append(mainLog, <<"Servers gracefully stopped", "">>)
    /\ mainPc' = MainAfterLoopPc
    /\ exitCode' = IF MainAfterLoopPc = "exited" THEN MainReturnStatus ELSE exitCode
    /\ UNCHANGED <<loopI, trigger>>
    /\ UNCHANGED <<runVars, srvVars, sigVars, ctxVars, sdVars>>
    /\ UNCHANGED nonApiVars

\* The 30 s timer of shutdownCtx fires.
DeadlineExpires ==
    /\ ApiRunning
    /\ ctxCreated
    /\ ~deadlineFired
    /\ deadlineFired' = TRUE
    /\ UNCHANGED ctxCreated
    /\ UNCHANGED <<mainVars, runVars, srvVars, sigVars, sdVars>>
    /\ UNCHANGED nonApiVars

(***************************************************************************)
(* The goroutines that run httpServer.Run() and grpcServer.Run().          *)
(***************************************************************************)
\* Server.Run of the HTTP transport: srv.ListenAndServe().  A server that is
\* already shutting down returns http.ErrServerClosed; otherwise the
\* listener binds (and is tracked, the server serves) or fails to bind.
HTTPRunListenAndServe ==
    /\ ApiRunning
    /\ runPc["http"] = "spawned"
    /\ runCalls' = [runCalls EXCEPT !["http"] = @ + 1]
    /\ IF httpInShutdown
         THEN /\ runPc' = [runPc EXCEPT !["http"] = "returned"]
              /\ runErr' = [runErr EXCEPT !["http"] = "ErrServerClosed"]
              /\ UNCHANGED listener
         ELSE \E bound \in BOOLEAN :
                IF bound
                  THEN /\ runPc' = [runPc EXCEPT !["http"] = "serving"]
                       /\ listener' = [listener EXCEPT !["http"] = "open"]
                       /\ UNCHANGED runErr
                  ELSE /\ runPc' = [runPc EXCEPT !["http"] = "returned"]
                       /\ runErr' = [runErr EXCEPT !["http"] = "bindErr"]
                       /\ UNCHANGED listener
    /\ UNCHANGED <<serverErrors, httpInShutdown, httpLnErr, grpcStopped, grpcConnsNil, active, accepted>>
    /\ UNCHANGED <<mainVars, sigVars, ctxVars, sdVars>>
    /\ UNCHANGED nonApiVars

\* Serve returns http.ErrServerClosed once Shutdown has closed the listener.
HTTPRunServeClosed ==
    /\ ApiRunning
    /\ runPc["http"] = "serving"
    /\ httpInShutdown
    /\ runPc' = [runPc EXCEPT !["http"] = "returned"]
    /\ runErr' = [runErr EXCEPT !["http"] = "ErrServerClosed"]
    /\ UNCHANGED <<runCalls, serverErrors>>
    /\ UNCHANGED <<mainVars, srvVars, sigVars, ctxVars, sdVars>>
    /\ UNCHANGED nonApiVars

\* Serve returns a listener (accept) error while the server is not shutting down.
HTTPRunServeFails ==
    /\ ApiRunning
    /\ runPc["http"] = "serving"
    /\ ~httpInShutdown
    /\ runPc' = [runPc EXCEPT !["http"] = "returned"]
    /\ runErr' = [runErr EXCEPT !["http"] = "acceptErr"]
    /\ listener' = [listener EXCEPT !["http"] = "closed"]
    /\ UNCHANGED <<runCalls, serverErrors>>
    /\ UNCHANGED <<httpInShutdown, httpLnErr, grpcStopped, grpcConnsNil, active, accepted>>
    /\ UNCHANGED <<mainVars, sigVars, ctxVars, sdVars>>
    /\ UNCHANGED nonApiVars

\* Server.Run of the gRPC transport, first half: net.Listen("tcp", s.addr);
\* a bind error is logged and returned.
GRPCRunListen ==
    /\ ApiRunning
    /\ runPc["grpc"] = "spawned"
    /\ runCalls' = [runCalls EXCEPT !["grpc"] = @ + 1]
    /\ \E bound \in BOOLEAN :
         IF bound
           THEN /\ runPc' = [runPc EXCEPT !["grpc"] = "listened"]
                /\ UNCHANGED runErr
           ELSE /\ runPc' = [runPc EXCEPT !["grpc"] = "returned"]
                /\ runErr' = [runErr EXCEPT !["grpc"] = "bindErr"]
    /\ UNCHANGED serverErrors
    /\ UNCHANGED <<mainVars, srvVars, sigVars, ctxVars, sdVars>>
    /\ UNCHANGED nonApiVars

\* Server.Run of the gRPC transport, second half: s.server.Serve(l).  Serve
\* on a server that was already stopped (Stop or GracefulStop came first)
\* closes l and returns grpc.ErrServerStopped.
GRPCRunServe ==
    /\ ApiRunning
    /\ runPc["grpc"] = "listened"
    /\ IF grpcStopped
         THEN /\ runPc' = [runPc EXCEPT !["grpc"] = "returned"]
              /\ runErr' = [runErr EXCEPT !["grpc"] = "ErrServerStopped"]
              /\ listener' = [listener EXCEPT !["grpc"] = "closed"]
         ELSE /\ runPc' = [runPc EXCEPT !["grpc"] = "serving"]
              /\ listener' = [listener EXCEPT !["grpc"] = "open"]
              /\ UNCHANGED runErr
    /\ UNCHANGED <<runCalls, serverErrors>>
    /\ UNCHANGED <<httpInShutdown, httpLnErr, grpcStopped, grpcConnsNil, active, accepted>>
    /\ UNCHANGED <<mainVars, sigVars, ctxVars, sdVars>>
    /\ UNCHANGED nonApiVars

\* Serve returns nil once Stop or GracefulStop has been called.
GRPCRunServeStopped ==
    /\ ApiRunning
    /\ runPc["grpc"] = "serving"
    /\ grpcStopped
    /\ runPc' = [runPc EXCEPT !["grpc"] = "returned"]
    /\ runErr' = [runErr EXCEPT !["grpc"] = "nil"]
    /\ UNCHANGED <<runCalls, serverErrors>>
    /\ UNCHANGED <<mainVars, srvVars, sigVars, ctxVars, sdVars>>
    /\ UNCHANGED nonApiVars

\* Serve returns a listener (accept) error while the server is not stopped.
GRPCRunServeFails ==
    /\ ApiRunning
    /\ runPc["grpc"] = "serving"
    /\ ~grpcStopped
    /\ runPc' = [runPc EXCEPT !["grpc"] = "returned"]
    /\ runErr' = [runErr EXCEPT !["grpc"] = "acceptErr"]
    /\ listener' = [listener EXCEPT !["grpc"] = "closed"]
    /\ UNCHANGED <<runCalls, serverErrors>>
    /\ UNCHANGED <<httpInShutdown, httpLnErr, grpcStopped, grpcConnsNil, active, accepted>>
    /\ UNCHANGED <<mainVars, sigVars, ctxVars, sdVars>>
    /\ UNCHANGED nonApiVars

\* The condition under which a Run goroutine forwards what Run returned:
\* HTTP: err != nil && err != http.ErrServerClosed;  gRPC: err != nil.
Forwarded(c, err) ==
    IF c = "http" THEN err \notin {"nil", "ErrServerClosed"}
                  ELSE err # "nil"

\* if err := Run(); <condition> { serverErrors <- fmt.Errorf(...) }; the
\* goroutine ends.  The send blocks while the channel is full.
RunForward(c) ==
    /\ ApiRunning
    /\ runPc[c] = "returned"
    /\ IF Forwarded(c, runErr[c])
         THEN /\ Len(serverErrors) < ServerErrorsCap
              /\ serverErrors' = Append(serverErrors, c)
         ELSE UNCHANGED serverErrors
    /\ runPc' = [runPc EXCEPT ![c] = "done"]
    /\ UNCHANGED <<runErr, runCalls>>
    /\ UNCHANGED <<mainVars, srvVars, sigVars, ctxVars, sdVars>>
    /\ UNCHANGED nonApiVars

\* Whether server c still takes new connections.
Accepting(c) ==
    /\ runPc[c] = "serving"
    /\ IF c = "http" THEN ~httpInShutdown ELSE ~grpcStopped

\* A client opens a connection and starts a request/call on server c.
ClientRequest(c) ==
    /\ ApiRunning
    /\ Accepting(c)
    /\ active[c] < MaxInflight
    /\ active' = [active EXCEPT ![c] = @ + 1]
    /\ accepted' = [accepted EXCEPT ![c] = TRUE]
    /\ UNCHANGED <<httpInShutdown, httpLnErr, grpcStopped, grpcConnsNil, listener>>
    /\ UNCHANGED <<mainVars, runVars, sigVars, ctxVars, sdVars>>
    /\ UNCHANGED nonApiVars

\* An in-flight request/call of server c completes and its connection goes idle.
RequestDone(c) ==
    /\ ApiRunning
    /\ active[c] > 0
    /\ active' = [active EXCEPT ![c] = @ - 1]
    /\ UNCHANGED <<httpInShutdown, httpLnErr, grpcStopped, grpcConnsNil, listener, accepted>>
    /\ UNCHANGED <<mainVars, runVars, sigVars, ctxVars, sdVars>>
    /\ UNCHANGED nonApiVars

RunStep ==
    \/ HTTPRunListenAndServe
    \/ HTTPRunServeClosed
    \/ HTTPRunServeFails
    \/ GRPCRunListen
    \/ GRPCRunServe
    \/ GRPCRunServeStopped
    \/ GRPCRunServeFails
    \/ \E c \in Components : RunForward(c)

ClientStep ==
    \/ \E c \in Components : ClientRequest(c)
    \/ \E c \in Components : RequestDone(c)

(***************************************************************************)
(* The goroutine of main that shuts the HTTP server down, with             *)
(* Server.Shutdown of the HTTP transport (srv.Shutdown(ctx)).              *)
(***************************************************************************)
\* Shutdown begins: inShutdown is set and the tracked listeners are closed;
\* the error of closing them, if any, is what a completed Shutdown returns.
HTTPShutdownBegin ==
    /\ ApiRunning
    /\ sdPc["http"] = "start"
    /\ sdCalls' = [sdCalls EXCEPT !["http"] = @ + 1]
    /\ sdOnStarted' = [sdOnStarted EXCEPT !["http"] = (runPc["http"] = "serving")]
    /\ httpInShutdown' = TRUE
    /\ IF listener["http"] = "open"
         THEN /\ listener' = [listener EXCEPT !["http"] = "closed"]
              /\ \E e \in {"nil", "lnErr"} : httpLnErr' = e
         ELSE UNCHANGED <<listener, httpLnErr>>
    /\ sdPc' = [sdPc EXCEPT !["http"] = "waiting"]
    /\ UNCHANGED <<grpcStopped, grpcConnsNil, active, accepted>>
    /\ UNCHANGED <<sdRes, helperPc, doneClosed, forced, shutdownErrors, shutdownDone>>
    /\ UNCHANGED <<mainVars, runVars, sigVars, ctxVars>>
    /\ UNCHANGED nonApiVars

\* Every connection is idle: Shutdown returns the listeners' close error.
HTTPShutdownIdle ==
    /\ ApiRunning
    /\ sdPc["http"] = "waiting"
    /\ active["http"] = 0
    /\ sdRes' = [sdRes EXCEPT !["http"] = httpLnErr]
    /\ sdPc' = [sdPc EXCEPT !["http"] = "returned"]
    /\ UNCHANGED <<sdCalls, sdOnStarted, helperPc, doneClosed, forced, shutdownErrors, shutdownDone>>
    /\ UNCHANGED <<mainVars, runVars, srvVars, sigVars, ctxVars>>
    /\ UNCHANGED nonApiVars

\* ctx is done first: Shutdown returns ctx.Err() and leaves the connections
\* that are still active as they are.
HTTPShutdownTimeout ==
    /\ ApiRunning
    /\ sdPc["http"] = "waiting"
    /\ deadlineFired
    /\ sdRes' = [sdRes EXCEPT !["http"] = "ctxErr"]
    /\ sdPc' = [sdPc EXCEPT !["http"] = "returned"]
    /\ UNCHANGED <<sdCalls, sdOnStarted, helperPc, doneClosed, forced, shutdownErrors, shutdownDone>>
    /\ UNCHANGED <<mainVars, runVars, srvVars, sigVars, ctxVars>>
    /\ UNCHANGED nonApiVars

(***************************************************************************)
(* The goroutine of main that shuts the gRPC server down, with             *)
(* Server.Shutdown of the gRPC transport and its GracefulStop goroutine.   *)
(***************************************************************************)
\* done := make(chan struct{}); go func() { GracefulStop(); close(done) }()
GRPCShutdownBegin ==
    /\ ApiRunning
    /\ sdPc["grpc"] = "start"
    /\ sdCalls' = [sdCalls EXCEPT !["grpc"] = @ + 1]
    /\ sdOnStarted' = [sdOnStarted EXCEPT !["grpc"] = (runPc["grpc"] = "serving")]
    /\ helperPc' = "start"
    /\ doneClosed' = FALSE
    /\ sdPc' = [sdPc EXCEPT !["grpc"] = "select"]
    /\ UNCHANGED <<sdRes, forced, shutdownErrors, shutdownDone>>
    /\ UNCHANGED <<mainVars, runVars, srvVars, sigVars, ctxVars>>
    /\ UNCHANGED nonApiVars

\* GracefulStop begins: quit fires, the listeners are closed (s.lis = nil);
\* on a server whose conns are already nil it returns at once.
GracefulStopBegin ==
    /\ ApiRunning
    /\ helperPc = "start"
    /\ grpcStopped' = TRUE
    /\ IF grpcConnsNil
         THEN /\ helperPc' = "stopped"
              /\ UNCHANGED listener
         ELSE /\ helperPc' = "draining"
              /\ listener' = [listener EXCEPT !["grpc"] =
                                IF @ = "open" THEN "closed" ELSE @]
    /\ UNCHANGED <<httpInShutdown, httpLnErr, grpcConnsNil, active, accepted>>
    /\ UNCHANGED <<sdPc, sdRes, sdCalls, sdOnStarted, doneClosed, forced, shutdownErrors, shutdownDone>>
    /\ UNCHANGED <<mainVars, runVars, sigVars, ctxVars>>
    /\ UNCHANGED nonApiVars

\* A GracefulStop that a Stop would not wake up: it would wait for the
\* calls to finish by themselves.
NoConnLeftUnlessStopped == active["grpc"] = 0 /\ ~forced["grpc"]

\* What GracefulStop waits for: no connection is left, because the calls
\* finished or because Stop closed them all and set conns to nil.
NoConnLeft == active["grpc"] = 0 \/ grpcConnsNil

\* GracefulStop returns.
GracefulStopEnd ==
    /\ ApiRunning
    /\ helperPc = "draining"
    /\ NoConnLeft
    /\ grpcConnsNil' = TRUE
    /\ helperPc' = "stopped"
    /\ UNCHANGED <<httpInShutdown, httpLnErr, grpcStopped, listener, active, accepted>>
    /\ UNCHANGED <<sdPc, sdRes, sdCalls, sdOnStarted, doneClosed, forced, shutdownErrors, shutdownDone>>
    /\ UNCHANGED <<mainVars, runVars, sigVars, ctxVars>>
    /\ UNCHANGED nonApiVars

\* close(done); the GracefulStop goroutine ends.
HelperCloseDone ==
    /\ ApiRunning
    /\ helperPc = "stopped"
    /\ doneClosed' = TRUE
    /\ helperPc' = "exit"
    /\ UNCHANGED <<sdPc, sdRes, sdCalls, sdOnStarted, forced, shutdownErrors, shutdownDone>>
    /\ UNCHANGED <<mainVars, runVars, srvVars, sigVars, ctxVars>>
    /\ UNCHANGED nonApiVars

\* A select that would take its done case although done was never closed.
DoneReceivableUnclosed == TRUE

\* case <-done is ready: a receive on done succeeds once done is closed.
DoneReceivable == doneClosed

\* select { case <-done: log "stopped gracefully"; return nil }
GRPCShutdownDone ==
    /\ ApiRunning
    /\ sdPc["grpc"] = "select"
    /\ DoneReceivable
    /\ sdRes' = [sdRes EXCEPT !["grpc"] = "nil"]
    /\ sdPc' = [sdPc EXCEPT !["grpc"] = "returned"]
    /\ UNCHANGED <<sdCalls, sdOnStarted, helperPc, doneClosed, forced, shutdownErrors, shutdownDone>>
    /\ UNCHANGED <<mainVars, runVars, srvVars, sigVars, ctxVars>>
    /\ UNCHANGED nonApiVars

\* select { case <-ctx.Done(): log; s.server.Stop(); return ctx.Err() }
\* Stop fires quit, closes the listeners and every connection, sets conns nil.
GRPCShutdownTimeout ==
    /\ ApiRunning
    /\ sdPc["grpc"] = "select"
    /\ deadlineFired
    /\ grpcStopped' = TRUE
    /\ grpcConnsNil' = TRUE
    /\ listener' = [listener EXCEPT !["grpc"] = IF @ = "open" THEN "closed" ELSE @]
    /\ active' = [active EXCEPT !["grpc"] = 0]
    /\ forced' = [forced EXCEPT !["grpc"] = TRUE]
    /\ sdRes' = [sdRes EXCEPT !["grpc"] = "ctxErr"]
    /\ sdPc' = [sdPc EXCEPT !["grpc"] = "returned"]
    /\ UNCHANGED <<httpInShutdown, httpLnErr, accepted>>
    /\ UNCHANGED <<sdCalls, sdOnStarted, helperPc, doneClosed, shutdownErrors, shutdownDone>>
    /\ UNCHANGED <<mainVars, runVars, sigVars, ctxVars>>
    /\ UNCHANGED nonApiVars

(***************************************************************************)
(* Both shutdown goroutines of main, after Shutdown has returned.          *)
(***************************************************************************)
\* if err := Shutdown(shutdownCtx); err != nil { shutdownErrors <- ... }
ShutdownSendErr(c) ==
    /\ ApiRunning
    /\ sdPc[c] = "returned"
    /\ IF sdRes[c] # "nil"
         THEN /\ Len(shutdownErrors) < ShutdownErrorsCap
              /\ shutdownErrors' = Append(shutdownErrors, c)
         ELSE UNCHANGED shutdownErrors
    /\ sdPc' = [sdPc EXCEPT ![c] = "sendDone"]
    /\ UNCHANGED <<sdRes, sdCalls, sdOnStarted, helperPc, doneClosed, forced, shutdownDone>>
    /\ UNCHANGED <<mainVars, runVars, srvVars, sigVars, ctxVars>>
    /\ UNCHANGED nonApiVars

\* shutdownDone <- struct{}{}, whatever Shutdown returned; the goroutine ends.
ShutdownSendDone(c) ==
    /\ ApiRunning
    /\ sdPc[c] = "sendDone"
    /\ Len(shutdownDone) < ShutdownDoneCap
    /\ shutdownDone' = Append(shutdownDone, c)
    /\ sdPc' = [sdPc EXCEPT ![c] = "done"]
    /\ UNCHANGED <<sdRes, sdCalls, sdOnStarted, helperPc, doneClosed, forced, shutdownErrors>>
    /\ UNCHANGED <<mainVars, runVars, srvVars, sigVars, ctxVars>>
    /\ UNCHANGED nonApiVars

ShutdownStep ==
    \/ HTTPShutdownBegin
    \/ HTTPShutdownIdle
    \/ HTTPShutdownTimeout
    \/ GRPCShutdownBegin
    \/ GracefulStopBegin
    \/ GracefulStopEnd
    \/ HelperCloseDone
    \/ GRPCShutdownDone
    \/ GRPCShutdownTimeout
    \/ \E c \in Components : ShutdownSendErr(c)
    \/ \E c \in Components : ShutdownSendDone(c)

MainStep ==
    \/ MainGoHTTP
    \/ MainGoGRPC
    \/ MainNotify
    \/ MainWaitErr
    \/ MainWaitSig
    \/ MainCtx
    \/ MainGoShutdownHTTP
    \/ MainGoShutdownGRPC
    \/ MainLoopRecvErr
    \/ MainLoopRecvDone
    \/ MainFinish

(***************************************************************************)
(* The worker process: cmd/worker main, Worker.Run, and the message queue. *)
(* The state after construction: the configuration is loaded, ctx and      *)
(* cancel exist, main is about to connect to RabbitMQ.                     *)
(***************************************************************************)
WorkerInit ==
    /\ wMainPc = "connect"
    /\ wExit = -1
    /\ wNotified = FALSE
    /\ wQuit = <<>>
    /\ wSigCount = 0
    /\ wCancelled = FALSE
    /\ wRunPc = "none"
    /\ wRunRes = "none"
    /\ wCur = 0
    /\ wProcessed = <<>>
    /\ wAcks = <<>>
    /\ wErrLogs = 0
    /\ mqCloseCalls = 0
    /\ mqClosed = FALSE
    /\ subscribed = FALSE
    /\ stream = <<>>
    /\ streamClosed = FALSE
    /\ nextMsg = 1

WorkerRunning == wMainPc # "exited"

\* messageQueue, err := repository.NewRabbitMQ(...); a failure is
\* log.Fatalf: the process exits with status 1.
WMainConnect ==
    /\ wMainPc = "connect"
    /\ \E ok \in BOOLEAN :
         IF ok
           THEN /\ wMainPc' = "goWorker"
                /\ UNCHANGED wExit
           ELSE /\ wMainPc' = "exited"
                /\ wExit' = 1
    /\ UNCHANGED <<wNotified, wQuit, wSigCount, wCancelled>>
    /\ UNCHANGED <<wRunVars, mqVars>>
    /\ UNCHANGED nonWorkerVars

\* worker := worker.NewWorker(messageQueue); go worker.Run(ctx)
\* The value Run returns is dropped by the go statement.
WMainGoWorker ==
    /\ wMainPc = "goWorker"
    /\ wMainPc' = "notify"
    /\ wRunPc' = "spawned"
    /\ UNCHANGED <<wExit, wNotified, wQuit, wSigCount, wCancelled>>
    /\ UNCHANGED <<wRunRes, wCur, wProcessed, wAcks, wErrLogs>>
    /\ UNCHANGED mqVars
    /\ UNCHANGED nonWorkerVars

\* The errors of Worker.Run that reach main: `go worker.Run(ctx)` drops the
\* returned value and the worker process makes no error channel.
WorkerErrorsForwarded == {}

\* quit := make(chan os.Signal, 1); signal.Notify(quit, SIGINT, SIGTERM)
WMainNotify ==
    /\ wMainPc = "notify"
    /\ wMainPc' = "wait"
    /\ wNotified' = TRUE
    /\ UNCHANGED <<wExit, wQuit, wSigCount, wCancelled>>
    /\ UNCHANGED <<wRunVars, mqVars>>
    /\ UNCHANGED nonWorkerVars

\* The OS delivers SIGINT or SIGTERM to the worker process.
WSignalArrives ==
    /\ WorkerRunning
    /\ wNotified
    /\ wSigCount < MaxSignals
    /\ wSigCount' = wSigCount + 1
    /\ wQuit' = IF Len(wQuit) < QuitCap THEN Append(wQuit, "sig") ELSE wQuit
    /\ UNCHANGED <<wMainPc, wExit, wNotified, wCancelled>>
    /\ UNCHANGED <<wRunVars, mqVars>>
    /\ UNCHANGED nonWorkerVars

\* <-quit; log.Println("Shutting down worker...")
WMainRecvQuit ==
    /\ wMainPc = "wait"
    /\ wQuit # <<>>
    /\ wQuit' = Tail(wQuit)
    /\ wMainPc' = "cancel"
    /\ UNCHANGED <<wExit, wNotified, wSigCount, wCancelled>>
    /\ UNCHANGED <<wRunVars, mqVars>>
    /\ UNCHANGED nonWorkerVars

\* cancel(); main returns and its deferred calls begin.
WMainCancel ==
    /\ wMainPc = "cancel"
    /\ wCancelled' = TRUE
    /\ wMainPc' = "deferClose"
    /\ UNCHANGED <<wExit, wNotified, wQuit, wSigCount>>
    /\ UNCHANGED <<wRunVars, mqVars>>
    /\ UNCHANGED nonWorkerVars

\* defer messageQueue.Close(): RabbitMQ.Close closes the channel and the
\* connection, which closes the delivery channel Consume returned.
WMainDeferClose ==
    /\ wMainPc = "deferClose"
    /\ mqCloseCalls' = mqCloseCalls + 1
    /\ mqClosed' = TRUE
    /\ streamClosed' = (streamClosed \/ subscribed)
    /\ wMainPc' = "exit"
    /\ UNCHANGED <<wExit, wNotified, wQuit, wSigCount, wCancelled>>
    /\ UNCHANGED <<subscribed, stream, nextMsg>>
    /\ UNCHANGED wRunVars
    /\ UNCHANGED nonWorkerVars

\* defer cancel(); main has returned: the process exits with status 0 and
\* the Worker.Run goroutine ends with it.
WMainExit ==
    /\ wMainPc = "exit"
    /\ wMainPc' = "exited"
    /\ wExit' = 0
    /\ wCancelled' = TRUE
    /\ UNCHANGED <<wNotified, wQuit, wSigCount>>
    /\ UNCHANGED <<wRunVars, mqVars>>
    /\ UNCHANGED nonWorkerVars

\* Worker.Run: messages, err := w.queue.Consume("tasks"); if err != nil
\* { return err }.  On a closed channel Consume fails.
WRunConsume ==
    /\ WorkerRunning
    /\ wRunPc = "spawned"
    /\ \E ok \in (IF mqClosed THEN {FALSE} ELSE BOOLEAN) :
         IF ok
           THEN /\ subscribed' = TRUE
                /\ wRunPc' = "select"
                /\ UNCHANGED wRunRes
           ELSE /\ wRunPc' = "done"
                /\ wRunRes' = "consumeErr"
                /\ UNCHANGED subscribed
    /\ UNCHANGED <<wCur, wProcessed, wAcks, wErrLogs>>
    /\ UNCHANGED <<mqCloseCalls, mqClosed, stream, streamClosed, nextMsg>>
    /\ UNCHANGED wMainVars
    /\ UNCHANGED nonWorkerVars

\* select { case <-ctx.Done(): return nil
WRunCancelled ==
    /\ WorkerRunning
    /\ wRunPc = "select"
    /\ wCancelled
    /\ wRunPc' = "done"
    /\ wRunRes' = "nil"
    /\ UNCHANGED <<wCur, wProcessed, wAcks, wErrLogs>>
    /\ UNCHANGED <<wMainVars, mqVars>>
    /\ UNCHANGED nonWorkerVars

\*          case msg := <-messages: processMessage(msg): log "Processing
\* message".  A receive from the closed, drained channel yields the zero
\* Delivery at once.
WRunReceive ==
    /\ WorkerRunning
    /\ wRunPc = "select"
    /\ Len(wProcessed) < MaxHandled
    /\ stream # <<>> \/ streamClosed
    /\ wCur' = IF stream # <<>> THEN Head(stream) ELSE 0
    /\ stream' = IF stream # <<>> THEN Tail(stream) ELSE stream
    /\ wProcessed' = Append(wProcessed, wCur')
    /\ wRunPc' = "ack"
    /\ UNCHANGED <<wRunRes, wAcks, wErrLogs>>
    /\ UNCHANGED <<mqCloseCalls, mqClosed, subscribed, streamClosed, nextMsg>>
    /\ UNCHANGED wMainVars
    /\ UNCHANGED nonWorkerVars

\* What msg.Ack(false) returns: an error for the zero Delivery (it has no
\* Acknowledger) and on a closed channel.
AckOk(msg) == msg # 0 /\ ~mqClosed

\* A loop that would acknowledge the same message again.
AfterAckPcAckAgain == "ack"

\* Where Run goes after processMessage returned nil: the next iteration.
AfterAckPc == "select"

\* A loop that would end when processMessage returns an error.
AfterAckErrorPcReturn == "done"

\* Where Run goes after processMessage returned an error: the error is
\* logged and the loop goes to its next iteration all the same.
AfterAckErrorPc == "select"

\* return msg.Ack(false); an error is logged by Run and the loop goes on.
WRunAck ==
    /\ WorkerRunning
    /\ wRunPc = "ack"
    /\ wAcks' = Append(wAcks, <<wCur, AckOk(wCur)>>)
    /\ wErrLogs' = IF AckOk(wCur) THEN wErrLogs ELSE wErrLogs + 1
    /\ wRunPc' = IF AckOk(wCur) THEN AfterAckPc ELSE AfterAckErrorPc
    /\ UNCHANGED <<wRunRes, wCur, wProcessed>>
    /\ UNCHANGED <<wMainVars, mqVars>>
    /\ UNCHANGED nonWorkerVars

\* The broker sends the next delivery to the subscribed consumer.
BrokerDeliver ==
    /\ WorkerRunning
    /\ subscribed
    /\ ~streamClosed
    /\ nextMsg <= MaxMsgs
    /\ stream' = Append(stream, nextMsg)
    /\ nextMsg' = nextMsg + 1
    /\ UNCHANGED <<mqCloseCalls, mqClosed, subscribed, streamClosed>>
    /\ UNCHANGED <<wMainVars, wRunVars>>
    /\ UNCHANGED nonWorkerVars

\* The broker connection is lost: the channel is closed by the library and
\* so is the delivery channel.
BrokerConnectionLost ==
    /\ WorkerRunning
    /\ wMainPc # "connect"
    /\ ~mqClosed
    /\ mqClosed' = TRUE
    /\ streamClosed' = (streamClosed \/ subscribed)
    /\ UNCHANGED <<mqCloseCalls, subscribed, stream, nextMsg>>
    /\ UNCHANGED <<wMainVars, wRunVars>>
    /\ UNCHANGED nonWorkerVars

WMainStep ==
    \/ WMainConnect
    \/ WMainGoWorker
    \/ WMainNotify
    \/ WMainRecvQuit
    \/ WMainCancel
    \/ WMainDeferClose
    \/ WMainExit

WRunStep ==
    \/ WRunConsume
    \/ WRunCancelled
    \/ WRunReceive
    \/ WRunAck

WorkerNext ==
    \/ WMainStep
    \/ WRunStep
    \/ WSignalArrives
    \/ BrokerDeliver
    \/ BrokerConnectionLost

(***************************************************************************)
(* The scheduler process: its main, Scheduler.Run, and the cron timer.     *)
(* The state after construction: the configuration is loaded, ctx and      *)
(* cancel exist, NewScheduler and RegisterTasks have run.                  *)
(***************************************************************************)
\* The tasks RegisterTasks adds: one every minute, one every hour.
Tasks == {"minute", "hour"}

SchedInit ==
    /\ sMainPc = "goRun"
    /\ sExit = -1
    /\ sNotified = FALSE
    /\ sQuit = <<>>
    /\ sSigCount = 0
    /\ sCancelled = FALSE
    /\ sRunPc = "none"
    /\ cronRunning = FALSE
    /\ cronLoop = "none"
    /\ jobActive = [t \in Tasks |-> 0]
    /\ fired = 0
    /\ firedAfterStop = 0
    /\ interrupted = 0

SchedRunning == sMainPc # "exited"

\* go scheduler.Run(ctx)
SMainGoRun ==
    /\ sMainPc = "goRun"
    /\ sMainPc' = "notify"
    /\ sRunPc' = "spawned"
    /\ UNCHANGED <<sExit, sNotified, sQuit, sSigCount, sCancelled>>
    /\ UNCHANGED <<cronRunning, cronLoop, jobActive, fired, firedAfterStop, interrupted>>
    /\ UNCHANGED nonSchedVars

\* quit := make(chan os.Signal, 1); signal.Notify(quit, SIGINT, SIGTERM)
SMainNotify ==
    /\ sMainPc = "notify"
    /\ sMainPc' = "wait"
    /\ sNotified' = TRUE
    /\ UNCHANGED <<sExit, sQuit, sSigCount, sCancelled>>
    /\ UNCHANGED cronVars
    /\ UNCHANGED nonSchedVars

\* The OS delivers SIGINT or SIGTERM to the scheduler process.
SSignalArrives ==
    /\ SchedRunning
    /\ sNotified
    /\ sSigCount < MaxSignals
    /\ sSigCount' = sSigCount + 1
    /\ sQuit' = IF Len(sQuit) < QuitCap THEN Append(sQuit, "sig") ELSE sQuit
    /\ UNCHANGED <<sMainPc, sExit, sNotified, sCancelled>>
    /\ UNCHANGED cronVars
    /\ UNCHANGED nonSchedVars

\* <-quit; log.Println("Shutting down scheduler...")
SMainRecvQuit ==
    /\ sMainPc = "wait"
    /\ sQuit # <<>>
    /\ sQuit' = Tail(sQuit)
    /\ sMainPc' = "cancel"
    /\ UNCHANGED <<sExit, sNotified, sSigCount, sCancelled>>
    /\ UNCHANGED cronVars
    /\ UNCHANGED nonSchedVars

\* cancel(); it is the last statement of main.
SMainCancel ==
    /\ sMainPc = "cancel"
    /\ sCancelled' = TRUE
    /\ sMainPc' = "return"
    /\ UNCHANGED <<sExit, sNotified, sQuit, sSigCount>>
    /\ UNCHANGED cronVars
    /\ UNCHANGED nonSchedVars

\* main returns (the deferred cancel runs): the process exits with status 0
\* and every other goroutine, the callbacks that are executing included,
\* ends with it.
SMainReturn ==
    /\ sMainPc = "return"
    /\ sMainPc' = "exited"
    /\ sExit' = 0
    /\ interrupted' = interrupted + jobActive["minute"] + jobActive["hour"]
    /\ jobActive' = [t \in Tasks |-> 0]
    /\ UNCHANGED <<sNotified, sQuit, sSigCount, sCancelled>>
    /\ UNCHANGED <<sRunPc, cronRunning, cronLoop, fired, firedAfterStop>>
    /\ UNCHANGED nonSchedVars

\* Scheduler.Run: s.cron.Start() sets running and starts the timer loop
\* goroutine; defer s.cron.Stop(); then Run blocks on <-ctx.Done().
SRunStart ==
    /\ SchedRunning
    /\ sRunPc = "spawned"
    /\ cronRunning' = TRUE
    /\ cronLoop' = "starting"
    /\ sRunPc' = "waiting"
    /\ UNCHANGED <<jobActive, fired, firedAfterStop, interrupted>>
    /\ UNCHANGED sMainVars
    /\ UNCHANGED nonSchedVars

\* The timer loop goroutine of cron reaches its select.
CronLoopBegin ==
    /\ SchedRunning
    /\ cronLoop = "starting"
    /\ cronLoop' = "looping"
    /\ UNCHANGED <<sRunPc, cronRunning, jobActive, fired, firedAfterStop, interrupted>>
    /\ UNCHANGED sMainVars
    /\ UNCHANGED nonSchedVars

\* The timer of task t fires: the loop starts the callback registered by
\* RegisterTasks in a goroutine of its own.
CronFire(t) ==
    /\ SchedRunning
    /\ cronLoop = "looping"
    /\ fired < MaxFirings
    /\ fired' = fired + 1
    /\ jobActive' = [jobActive EXCEPT ![t] = @ + 1]
    /\ firedAfterStop' = IF sRunPc = "returned" THEN firedAfterStop + 1 ELSE firedAfterStop
    /\ UNCHANGED <<sRunPc, cronRunning, cronLoop, interrupted>>
    /\ UNCHANGED sMainVars
    /\ UNCHANGED nonSchedVars

\* The callback of task t returns (func() { if err := s.exampleTask() ... }).
JobDone(t) ==
    /\ SchedRunning
    /\ jobActive[t] > 0
    /\ jobActive' = [jobActive EXCEPT ![t] = @ - 1]
    /\ UNCHANGED <<sRunPc, cronRunning, cronLoop, fired, firedAfterStop, interrupted>>
    /\ UNCHANGED sMainVars
    /\ UNCHANGED nonSchedVars

\* <-ctx.Done() returns once cancel() has been called.
SRunCtxDone ==
    /\ SchedRunning
    /\ sRunPc = "waiting"
    /\ sCancelled
    /\ sRunPc' = "stopping"
    /\ UNCHANGED <<cronRunning, cronLoop, jobActive, fired, firedAfterStop, interrupted>>
    /\ UNCHANGED sMainVars
    /\ UNCHANGED nonSchedVars

\* The deferred s.cron.Stop(): it hands the stop over to the timer loop
\* (an unbuffered send the loop's select receives), the loop stops its timer
\* and ends, running is cleared; the callbacks executing are left alone.
\* Run returns.
SRunDeferStop ==
    /\ SchedRunning
    /\ sRunPc = "stopping"
    /\ cronLoop = "looping"
    /\ cronLoop' = "stopped"
    /\ cronRunning' = FALSE
    /\ sRunPc' = "returned"
    /\ UNCHANGED <<jobActive, fired, firedAfterStop, interrupted>>
    /\ UNCHANGED sMainVars
    /\ UNCHANGED nonSchedVars

SMainStep ==
    \/ SMainGoRun
    \/ SMainNotify
    \/ SMainRecvQuit
    \/ SMainCancel
    \/ SMainReturn

SRunStep ==
    \/ SRunStart
    \/ SRunCtxDone
    \/ SRunDeferStop

CronStep ==
    \/ CronLoopBegin
    \/ \E t \in Tasks : CronFire(t)
    \/ \E t \in Tasks : JobDone(t)

SchedNext ==
    \/ SMainStep
    \/ SRunStep
    \/ CronStep
    \/ SSignalArrives

(***************************************************************************)
(* Handler.createUser, isValidEmail and the JSON encoding of domain.User.  *)
(* Strings are sequences of characters; an index is 0-based as in Go, -1   *)
(* when there is none.                                                     *)
(***************************************************************************)
EmailChars == {"a", "@", "."}

\* The emails of the payloads: every string of at most MaxEmailLen characters.
Emails == UNION {[1..n -> EmailChars] : n \in 0..MaxEmailLen}

Passwords == {"", "pw"}
Names == {"", "n"}

\* What the User Service answers to Create: nil or an error of the store.
ServiceResults == {"nil", "dbErr"}

\* strings.Index(s, ch): the index of the first ch in s, looking from i on.
RECURSIVE IndexFrom(_, _, _)
IndexFrom(s, ch, i) ==
    IF i >= Len(s) THEN -1
    ELSE IF s[i + 1] = ch THEN i
    ELSE IndexFrom(s, ch, i + 1)

\* strings.LastIndex(s, ch): the index of the last ch in s, looking from i down.
RECURSIVE LastIndexFrom(_, _, _)
LastIndexFrom(s, ch, i) ==
    IF i < 0 THEN -1
    ELSE IF s[i + 1] = ch THEN i
    ELSE LastIndexFrom(s, ch, i - 1)

\* A check that would let the '@' be the first character: one less.
AtIndexMinZero == 1 - 1

\* if atIndex < 1 { return false }
AtIndexMin == 1

\* atIndex := strings.Index(email, "@"); if atIndex < 1 { return false }
\* dotIndex := strings.LastIndex(email, ".")
\* return dotIndex > atIndex && dotIndex < len(email)-1
isValidEmail(email) ==
    LET atIndex == IndexFrom(email, "@", 0)
        dotIndex == LastIndexFrom(email, ".", Len(email) - 1)
    IN  IF atIndex < AtIndexMin
          THEN FALSE
          ELSE dotIndex > atIndex /\ dotIndex < Len(email) - 1

\* An encoding that would carry the password.
UserJSONFieldsWithPassword == {"id", "email", "password", "name", "created_at", "updated_at"}

\* The fields of domain.User that json encodes: Password is tagged json:"-".
UserJSONFields == {"id", "email", "name", "created_at", "updated_at"}

\* json.NewEncoder(w).Encode(user)
EncodeUser(user) == [k \in UserJSONFields |-> user[k]]

\* respondError: errorRS{Error: err.Error()}
EncodeError(err) == [error |-> err]

\* The response of createUser to a body that decodes or not into
\* {email, password, name}, with a User Service that answers svc to Create.
\* The double leaves ID and the timestamps of the user as the handler built
\* them: zero.
createUserResponse(decodes, email, password, name, svc) ==
    LET user == [id |-> "", email |-> email, password |-> password, name |-> name,
                 created_at |-> 0, updated_at |-> 0]
    IN  IF ~decodes
          THEN [status |-> 400, body |-> EncodeError("decode error"), svcCalled |-> FALSE]
        ELSE IF email = <<>> \/ password = ""
          THEN [status |-> 400, body |-> EncodeError("invalid input"), svcCalled |-> FALSE]
        ELSE IF ~isValidEmail(email)
          THEN [status |-> 400, body |-> EncodeError("invalid input"), svcCalled |-> FALSE]
        ELSE IF svc # "nil"
          THEN [status |-> 500, body |-> EncodeError(svc), svcCalled |-> TRUE]
        ELSE [status |-> 201, body |-> EncodeUser(user), svcCalled |-> TRUE]

\* A handler over a fresh User Service double; no request handled yet.
CreateFresh ==
    [ran |-> FALSE, decodes |-> FALSE, email |-> <<>>, password |-> "",
     name |-> "", svc |-> "nil",
     resp |-> [status |-> 0, body |-> EncodeError(""), svcCalled |-> FALSE]]

CreateInit == cr = CreateFresh

\* A POST /api/v1/users request is handled by createUser.
CreateUserRequest ==
    /\ ~cr.ran
    /\ \E decodes \in BOOLEAN, email \in Emails, password \in Passwords,
          name \in Names, svc \in ServiceResults :
         cr' = [ran |-> TRUE, decodes |-> decodes, email |-> email,
                password |-> password, name |-> name, svc |-> svc,
                resp |-> createUserResponse(decodes, email, password, name, svc)]
    /\ UNCHANGED nonCreateVars

\* The handler and the double are set up anew for the next request.
CreateSetup ==
    /\ cr.ran
    /\ cr' = CreateFresh
    /\ UNCHANGED nonCreateVars

CreateNext ==
    \/ CreateUserRequest
    \/ CreateSetup

(***************************************************************************)
(* The five handlers over the real UserService (which passes every call    *)
(* and every result through), UserRepository and the users table.  An id   *)
(* is a positive number, 0 stands for the empty string; the repository     *)
(* generates the ids 1, 2, ... (uuid.New(): never one it gave before).     *)
(***************************************************************************)
\* The ids a request path may carry.
PathIds == 0..MaxUsers

\* The {email, name} of the payloads sent to these handlers: one with an
\* email that passes isValidEmail, one with an email that does not.
CrudPayloads ==
    {[email |-> <<"a", "@", ".", "a">>, name |-> "n"],
     [email |-> <<"a">>, name |-> ""]}

CrudInit ==
    /\ users = <<>>
    /\ nextId = 0
    /\ last = [op |-> "none", id |-> 0, dbOk |-> TRUE, existed |-> FALSE,
               deletedBefore |-> FALSE, status |-> 0, body |-> "none"]
    /\ delOk = [i \in 1..MaxUsers |-> 0]
    /\ now = 1

\* What a time.Now() may return: the clock does not go back, and it may
\* have advanced since it was read last.  0 is the zero time.Time.
ClockReadings == now..MaxClock

\* The ids of the rows of the table.
StoredIds == DOMAIN users

\* The table without the row of id.
WithoutRow(id) == [i \in StoredIds \ {id} |-> users[i]]

\* The table with row as the row of id.
WithRow(id, row) == [i \in StoredIds \cup {id} |-> IF i = id THEN row ELSE users[i]]

\* A domain.User as SELECT id, email, name, created_at, updated_at scans it.
ScannedUser(id) ==
    [id |-> id, email |-> users[id].email, password |-> "", name |-> users[id].name,
     created_at |-> users[id].created_at, updated_at |-> users[id].updated_at]

\* UserRepository.GetByID: the error of db.GetContext as it is, which for
\* no row is sql.ErrNoRows.
RepoGetByID(id, dbOk) ==
    IF ~dbOk THEN [err |-> "dbErr"]
    ELSE IF id \notin StoredIds THEN [err |-> "sql: no rows in result set"]
    ELSE [err |-> "nil", user |-> ScannedUser(id)]

\* result.RowsAffected() of an UPDATE or DELETE ... WHERE id = $1.
RowsAffected(id) == IF id \in StoredIds THEN 1 ELSE 0

\* A Delete that would never find that no row was affected.
DeleteNoRowsNever == 0 - 1

\* UserRepository.Delete: if rows == 0 { return domain.ErrUserNotFound }
DeleteNoRows == 0

\* UserRepository.Delete
RepoDelete(id, dbOk) ==
    IF ~dbOk THEN "dbErr"
    ELSE IF RowsAffected(id) = DeleteNoRows THEN "user not found"
    ELSE "nil"

\* UserRepository.Update
RepoUpdate(id, dbOk) ==
    IF ~dbOk THEN "dbErr"
    ELSE IF RowsAffected(id) = 0 THEN "user not found"
    ELSE "nil"

\* The status a handler gives to an error of the service: 404 for
\* domain.ErrUserNotFound itself, 500 for any other.
ErrorStatus(err) == IF err = "user not found" THEN 404 ELSE 500

\* POST /api/v1/users: createUser, UserService.Create, UserRepository.Create.
\* The repository generates the id, reads the clock once for CreatedAt and
\* once more for UpdatedAt, and inserts the row.
CrudCreate ==
    \E payload \in CrudPayloads, password \in Passwords, dbOk \in BOOLEAN,
       t1 \in ClockReadings, t2 \in ClockReadings :
        LET email == payload.email
            name == payload.name
            willInsert == email # <<>> /\ password # "" /\ isValidEmail(email) /\ dbOk
            id == nextId + 1
            r == createUserResponse(TRUE, email, password, name,
                                    IF dbOk THEN "nil" ELSE "dbErr")
            user == [id |-> id, email |-> email, password |-> password, name |-> name,
                     created_at |-> t1, updated_at |-> t2]
        IN  /\ t1 <= t2
            /\ r.svcCalled => nextId < MaxUsers
            /\ ~r.svcCalled => t1 = now /\ t2 = now
            /\ now' = t2
            /\ nextId' = IF r.svcCalled THEN id ELSE nextId
            /\ users' = IF willInsert
                           THEN WithRow(id, [email |-> email, name |-> name,
                                             password |-> password,
                                             created_at |-> t1, updated_at |-> t2])
                           ELSE users
            /\ last' = [op |-> "create", id |-> IF r.svcCalled THEN id ELSE 0,
                        dbOk |-> dbOk, existed |-> FALSE, deletedBefore |-> FALSE,
                        status |-> r.status,
                        body |-> IF r.status = 201 THEN EncodeUser(user) ELSE r.body]
            /\ UNCHANGED delOk
            /\ UNCHANGED nonCrudVars

\* GET /api/v1/users/{id}: getUserByID, UserService.GetByID,
\* UserRepository.GetByID.
CrudGetByID ==
    \E id \in PathIds, dbOk \in BOOLEAN :
        LET got == RepoGetByID(id, dbOk)
        IN  /\ last' = [op |-> "get", id |-> id, dbOk |-> dbOk,
                        existed |-> (id \in StoredIds),
                        deletedBefore |-> (id # 0 /\ delOk[id] > 0),
                        status |-> IF id = 0 THEN 400
                                   ELSE IF got.err # "nil" THEN ErrorStatus(got.err)
                                   ELSE 200,
                        body |-> IF id = 0 THEN EncodeError("invalid input")
                                 ELSE IF got.err # "nil" THEN EncodeError(got.err)
                                 ELSE EncodeUser(got.user)]
            /\ UNCHANGED <<users, nextId, delOk, now>>
            /\ UNCHANGED nonCrudVars

\* PUT /api/v1/users/{id}: updateUser, UserService.Update,
\* UserRepository.Update.  The email is stored as it comes; the repository
\* reads the clock for UpdatedAt; the body of a 200 is the user the handler
\* built (ID, Email, Name) with that UpdatedAt, its CreatedAt the zero time.
CrudUpdate ==
    \E id \in PathIds, decodes \in BOOLEAN, payload \in CrudPayloads,
       dbOk \in BOOLEAN, t \in ClockReadings :
        LET email == payload.email
            name == payload.name
            err == RepoUpdate(id, dbOk)
            called == id # 0 /\ decodes
            user == [id |-> id, email |-> email, password |-> "", name |-> name,
                     created_at |-> 0, updated_at |-> t]
        IN  /\ ~called => t = now
            /\ now' = t
            /\ users' = IF called /\ err = "nil"
                           THEN WithRow(id, [email |-> email, name |-> name,
                                             password |-> users[id].password,
                                             created_at |-> users[id].created_at,
                                             updated_at |-> t])
                           ELSE users
            /\ last' = [op |-> "update", id |-> id, dbOk |-> dbOk,
                        existed |-> (id \in StoredIds),
                        deletedBefore |-> (id # 0 /\ delOk[id] > 0),
                        status |-> IF id = 0 THEN 400
                                   ELSE IF ~decodes THEN 400
                                   ELSE IF err # "nil" THEN ErrorStatus(err)
                                   ELSE 200,
                        body |-> IF id = 0 THEN EncodeError("invalid input")
                                 ELSE IF ~decodes THEN EncodeError("decode error")
                                 ELSE IF err # "nil" THEN EncodeError(err)
                                 ELSE EncodeUser(user)]
            /\ UNCHANGED <<nextId, delOk>>
            /\ UNCHANGED nonCrudVars

\* DELETE /api/v1/users/{id}: deleteUser, UserService.Delete,
\* UserRepository.Delete.
CrudDelete ==
    \E id \in PathIds, dbOk \in BOOLEAN :
        LET err == RepoDelete(id, dbOk)
            ok == id # 0 /\ err = "nil"
        IN  /\ users' = IF ok /\ id \in StoredIds THEN WithoutRow(id) ELSE users
            /\ delOk' = IF ok THEN [delOk EXCEPT ![id] = @ + 1] ELSE delOk
            /\ last' = [op |-> "delete", id |-> id, dbOk |-> dbOk,
                        existed |-> (id \in StoredIds),
                        deletedBefore |-> (id # 0 /\ delOk[id] > 0),
                        status |-> IF id = 0 THEN 400
                                   ELSE IF err # "nil" THEN ErrorStatus(err)
                                   ELSE 204,
                        body |-> IF id = 0 THEN EncodeError("invalid input")
                                 ELSE IF err # "nil" THEN EncodeError(err)
                                 ELSE "none"]
            /\ UNCHANGED <<nextId, now>>
            /\ UNCHANGED nonCrudVars

\* The rows of the table from the last inserted to the first, as
\* ORDER BY created_at DESC gives them.
RECURSIVE RowsDesc(_)
RowsDesc(i) ==
    IF i = 0 THEN <<>>
    ELSE IF i \in StoredIds THEN <<EncodeUser(ScannedUser(i))>> \o RowsDesc(i - 1)
    ELSE RowsDesc(i - 1)

\* GET /api/v1/users: listUsers, UserService.List, UserRepository.List.
\* The slice `var users []*domain.User` is left nil when there is no row and
\* a nil slice encodes as null.
CrudList ==
    \E dbOk \in BOOLEAN :
        /\ last' = [op |-> "list", id |-> 0, dbOk |-> dbOk, existed |-> FALSE,
                    deletedBefore |-> FALSE,
                    status |-> IF dbOk THEN 200 ELSE 500,
                    body |-> IF ~dbOk THEN EncodeError("dbErr")
                             ELSE IF StoredIds = {} THEN "null"
                             ELSE RowsDesc(nextId)]
        /\ UNCHANGED <<users, nextId, delOk, now>>
        /\ UNCHANGED nonCrudVars

CrudNext ==
    \/ CrudCreate
    \/ CrudGetByID
    \/ CrudUpdate
    \/ CrudDelete
    \/ CrudList

(***************************************************************************)
(* The API process before and after serving: main loads the configuration, *)
(* opens the database (with one retry as the postgres user), runs the      *)
(* migrations, connects to RabbitMQ (with one retry as guest), serves, and *)
(* on return runs its deferred messageQueue.Close() and db.Close().        *)
(* Logger.Fatal writes a zerolog fatal event, which ends the process with  *)
(* os.Exit(1): deferred calls do not run.                                  *)
(***************************************************************************)
\* main makes at most two attempts to open each connection.
Attempts == {1, 2}

\* What NewPostgresDB can do: return a handle; fail in sqlx.Connect with
\* "password authentication failed" or with another error (sqlx.Connect
\* closes what it opened); fail in the Ping that follows, where the handle
\* sqlx.Connect returned is dropped without Close.
DBOutcomes == {"ok", "authFail", "fail", "pingFail"}

\* What NewRabbitMQ can do: return a RabbitMQ, or fail in amqp.Dial, in
\* conn.Channel() or in ch.QueueDeclare.
MQStages == {"ok", "dial", "channel", "declare"}

StartInit ==
    /\ stPc = "loadConfig"
    /\ stExit = -1
    /\ dbConn = [a \in Attempts |-> "none"]
    /\ dbCloseCalls = [a \in Attempts |-> 0]
    /\ stDb = 0
    /\ amqpConn = [a \in Attempts |-> "none"]
    /\ amqpCloseCalls = [a \in Attempts |-> 0]
    /\ stMq = 0

\* log.Fatal(...): event.Msg of a fatal event calls os.Exit(1).
LoggerFatal ==
    /\ stPc' = "exited"
    /\ stExit' = 1

\* cfg, err := config.Load(); if err != nil { log.Fatal(...) }
StLoadConfig ==
    /\ stPc = "loadConfig"
    /\ \E ok \in BOOLEAN :
         IF ok THEN stPc' = "openDB" /\ UNCHANGED stExit
               ELSE LoggerFatal
    /\ UNCHANGED <<dbConn, dbCloseCalls, stDb, amqpConn, amqpCloseCalls, stMq>>
    /\ UNCHANGED nonStartVars

\* NewPostgresDB as attempt a: what it leaves of the handle it opened.
NewPostgresDB(a, out) ==
    /\ dbConn' = IF out \in {"ok", "pingFail"}
                   THEN [dbConn EXCEPT ![a] = "open"]
                   ELSE dbConn
    /\ stDb' = IF out = "ok" THEN a ELSE stDb

\* db, err := repository.NewPostgresDB(cfg.DB...); on "password
\* authentication failed" main tries again, on any other error log.Fatal;
\* on success `defer db.Close()` is registered.
StOpenDB ==
    /\ stPc = "openDB"
    /\ \E out \in DBOutcomes :
         /\ NewPostgresDB(1, out)
         /\ CASE out = "ok" -> stPc' = "migrate" /\ UNCHANGED stExit
              [] out = "authFail" -> stPc' = "retryDB" /\ UNCHANGED stExit
              [] OTHER -> LoggerFatal
    /\ UNCHANGED <<dbCloseCalls, amqpConn, amqpCloseCalls, stMq>>
    /\ UNCHANGED nonStartVars

\* db, err = repository.NewPostgresDB(user postgres); if err != nil
\* { log.Fatal(...) }
StRetryDB ==
    /\ stPc = "retryDB"
    /\ \E out \in DBOutcomes :
         /\ NewPostgresDB(2, out)
         /\ IF out = "ok" THEN stPc' = "migrate" /\ UNCHANGED stExit
                          ELSE LoggerFatal
    /\ UNCHANGED <<dbCloseCalls, amqpConn, amqpCloseCalls, stMq>>
    /\ UNCHANGED nonStartVars

\* if err := migrationManager.RunMigrations(...); err != nil
\* { log.Fatal("Failed to run migrations", ...) }
StMigrate ==
    /\ stPc = "migrate"
    /\ \E ok \in BOOLEAN :
         IF ok THEN stPc' = "openMQ" /\ UNCHANGED stExit
               ELSE LoggerFatal
    /\ UNCHANGED <<dbConn, dbCloseCalls, stDb, amqpConn, amqpCloseCalls, stMq>>
    /\ UNCHANGED nonStartVars

\* NewRabbitMQ as attempt a: a failure of amqp.Dial opens nothing; after a
\* failure of conn.Channel() or ch.QueueDeclare the constructor closes the
\* connection it dialled.
NewRabbitMQ(a, stage) ==
    /\ amqpConn' = CASE stage = "ok" -> [amqpConn EXCEPT ![a] = "open"]
                     [] stage = "dial" -> amqpConn
                     [] OTHER -> [amqpConn EXCEPT ![a] = "closed"]
    /\ amqpCloseCalls' = IF stage \in {"channel", "declare"}
                           THEN [amqpCloseCalls EXCEPT ![a] = @ + 1]
                           ELSE amqpCloseCalls
    /\ stMq' = IF stage = "ok" THEN a ELSE stMq

\* messageQueue, err := repository.NewRabbitMQ(cfg.RabbitMQ.URL); on
\* "authentication failure" main tries again, on any other error
\* log.Fatal; on success `defer messageQueue.Close()` is registered.
StOpenMQ ==
    /\ stPc = "openMQ"
    /\ \E stage \in MQStages, auth \in BOOLEAN :
         /\ NewRabbitMQ(1, stage)
         /\ stage = "ok" => ~auth
         /\ CASE stage = "ok" -> stPc' = "serve" /\ UNCHANGED stExit
              [] stage # "ok" /\ auth -> stPc' = "retryMQ" /\ UNCHANGED stExit
              [] OTHER -> LoggerFatal
    /\ UNCHANGED <<dbConn, dbCloseCalls, stDb>>
    /\ UNCHANGED nonStartVars

\* messageQueue, err = repository.NewRabbitMQ(guest); if err != nil
\* { log.Fatal(...) }
StRetryMQ ==
    /\ stPc = "retryMQ"
    /\ \E stage \in MQStages :
         /\ NewRabbitMQ(2, stage)
         /\ IF stage = "ok" THEN stPc' = "serve" /\ UNCHANGED stExit
                            ELSE LoggerFatal
    /\ UNCHANGED <<dbConn, dbCloseCalls, stDb>>
    /\ UNCHANGED nonStartVars

\* The rest of main: the servers are built and run until the termination
\* loop ends, and main returns; its deferred calls begin.
StServe ==
    /\ stPc = "serve"
    /\ stPc' = "deferCloseMQ"
    /\ UNCHANGED <<stExit, dbConn, dbCloseCalls, stDb, amqpConn, amqpCloseCalls, stMq>>
    /\ UNCHANGED nonStartVars

\* defer messageQueue.Close(): RabbitMQ.Close closes the channel and, unless
\* that returned an error, the connection.
StDeferCloseMQ ==
    /\ stPc = "deferCloseMQ"
    /\ \E chanErr \in BOOLEAN :
         IF chanErr
           THEN UNCHANGED <<amqpConn, amqpCloseCalls>>
           ELSE /\ amqpConn' = [amqpConn EXCEPT ![stMq] = "closed"]
                /\ amqpCloseCalls' = [amqpCloseCalls EXCEPT ![stMq] = @ + 1]
    /\ stPc' = "deferCloseDB"
    /\ UNCHANGED <<stExit, dbConn, dbCloseCalls, stDb, stMq>>
    /\ UNCHANGED nonStartVars

\* defer db.Close()
StDeferCloseDB ==
    /\ stPc = "deferCloseDB"
    /\ dbConn' = [dbConn EXCEPT ![stDb] = "closed"]
    /\ dbCloseCalls' = [dbCloseCalls EXCEPT ![stDb] = @ + 1]
    /\ stPc' = "return"
    /\ UNCHANGED <<stExit, stDb, amqpConn, amqpCloseCalls, stMq>>
    /\ UNCHANGED nonStartVars

\* main has returned: the process exits with status 0.
StExit ==
    /\ stPc = "return"
    /\ stPc' = "exited"
    /\ stExit' = 0
    /\ UNCHANGED <<dbConn, dbCloseCalls, stDb, amqpConn, amqpCloseCalls, stMq>>
    /\ UNCHANGED nonStartVars

StartNext ==
    \/ StLoadConfig
    \/ StOpenDB
    \/ StRetryDB
    \/ StMigrate
    \/ StOpenMQ
    \/ StRetryMQ
    \/ StServe
    \/ StDeferCloseMQ
    \/ StDeferCloseDB
    \/ StExit

\* The two processes that open connections at startup.
ConnectionsNext ==
    \/ StartNext
    \/ WorkerNext

Init == ApiInit /\ WorkerInit /\ SchedInit /\ CreateInit /\ CrudInit /\ StartInit

\* The API process.
Next ==
    \/ MainStep
    \/ RunStep
    \/ ClientStep
    \/ ShutdownStep
    \/ SignalArrives
    \/ DeadlineExpires

Spec == Init /\ [][Next]_vars

\* The worker process.
WorkerSpec == Init /\ [][WorkerNext]_vars

\* The scheduler process.
SchedulerSpec == Init /\ [][SchedNext]_vars

\* Handler.createUser, request after request.
CreateSpec == Init /\ [][CreateNext]_vars

\* The HTTP handlers over the real service, repository and store.
CrudSpec == Init /\ [][CrudNext]_vars

\* The API process's startup and teardown, and the worker process.
ConnectionsSpec == Init /\ [][ConnectionsNext]_vars

(***************************************************************************)
(* Reading the state.                                                      *)
(***************************************************************************)
Range(q) == {q[i] : i \in DOMAIN q}

\* Number of lines of main's log with message msg.
LogCount(msg) == Cardinality({i \in DOMAIN mainLog : mainLog[i][1] = msg})

\* main has logged "Servers gracefully stopped" and returned.
Finished == mainPc = "exited"

\* The Shutdown call of component c has returned.
ShutdownReturned(c) == sdRes[c] # "none"

\* The Shutdown call of component c has returned an error.
ShutdownFailed(c) == sdRes[c] \notin {"none", "nil"}

\* The error Run of component c returned has been put on serverErrors (it is
\* still there or main has taken it).
OnErrorChannel(c) ==
    \/ c \in Range(serverErrors)
    \/ <<"Server error", c>> \in Range(mainLog)

\* What a Run returns that was ended by a clean shutdown.
CleanClose(c) == IF c = "http" THEN {"ErrServerClosed"} ELSE {"nil", "ErrServerStopped"}

(***************************************************************************)
(* C1.  main does not log "Servers gracefully stopped" and return before   *)
(* both Shutdown calls have returned or the shared deadline has expired.   *)
(* Refuted by the code: a Shutdown that returns an error makes its         *)
(* goroutine send twice, and main counts two receives.                     *)
(***************************************************************************)
C1_WaitsForBothOrDeadline ==
    Finished => (deadlineFired \/ \A c \in Components : ShutdownReturned(c))

(***************************************************************************)
(* C2.  When exactly one component's Shutdown runs into the deadline and   *)
(* the other returns nil, main finishes after the deadline has fired       *)
(* having logged exactly one "Shutdown error", the blocked component's,    *)
(* and exactly one "Server shutdown completed successfully".               *)
(***************************************************************************)
C2_OneTimeoutOthersSuccess ==
    \A b \in Components :
        (/\ Finished
         /\ sdRes[b] = "ctxErr"
         /\ \A o \in Components \ {b} : sdRes[o] = "nil")
        => /\ deadlineFired
           /\ LogCount("Shutdown error") = 1
           /\ <<"Shutdown error", b>> \in Range(mainLog)
           /\ LogCount("Server shutdown completed successfully") = 1

(***************************************************************************)
(* C3.  When main has finished, the error of every component whose         *)
(* Shutdown returned an error has been logged as "Shutdown error".         *)
(***************************************************************************)
C3_EveryShutdownErrorLogged ==
    Finished =>
        \A c \in Components :
            ShutdownFailed(c) => <<"Shutdown error", c>> \in Range(mainLog)

(***************************************************************************)
(* C4.  If termination was triggered by a fatal Run error, or some         *)
(* component's Shutdown returned an error or timed out, the process ends   *)
(* with a non-zero exit status.                                            *)
(***************************************************************************)
C4_FailureExitsNonZero ==
    (/\ Finished
     /\ \/ trigger = "error"
        \/ \E c \in Components : ShutdownFailed(c))
    => exitCode # 0

(***************************************************************************)
(* C5.  Shutdown is invoked only on a component that had bound its         *)
(* listener and was serving.                                               *)
(***************************************************************************)
C5_ShutdownOnlyOnStarted ==
    \A c \in Components : sdCalls[c] > 0 => sdOnStarted[c]

(***************************************************************************)
(* C6.  Run and Shutdown of each component are invoked at most once, and   *)
(* at most one trigger is serviced and at most one shutdown sequence is    *)
(* begun, however many signals and Run errors follow.                      *)
(***************************************************************************)
C6_AtMostOnce ==
    /\ \A c \in Components : runCalls[c] <= 1 /\ sdCalls[c] <= 1
    /\ LogCount("Server error") + LogCount("Received signal") <= 1
    /\ LogCount("Shutting down servers") <= 1

\* C6 witness: the shutdown was triggered by a signal and has run to the
\* end with both Shutdowns invoked, while a second signal and a Run error
\* wait unserviced on their channels.
C6_Witness ==
    /\ Finished
    /\ trigger = "signal"
    /\ \A c \in Components : sdCalls[c] = 1 /\ runCalls[c] = 1
    /\ sigCount >= 2
    /\ quit # <<>>
    /\ serverErrors # <<>>

(***************************************************************************)
(* C7.  Shutdown is invoked, and main is past its termination wait, only   *)
(* after a signal or a Run error was received; and having received one,    *)
(* main does not finish without Shutdown having been invoked on every      *)
(* component.                                                              *)
(***************************************************************************)
C7_ShutdownIffTriggered ==
    /\ \A c \in Components : sdCalls[c] > 0 => trigger # "none"
    /\ mainPc \notin {"goHTTP", "goGRPC", "notify", "wait"} => trigger # "none"
    /\ Finished => \A c \in Components : sdCalls[c] > 0

(***************************************************************************)
(* C8.  Once a component has failed to start (a listener failed to bind,   *)
(* the Worker failed to subscribe), its process does not stay in the       *)
(* termination wait: main is never blocked there.                          *)
(***************************************************************************)
C8_StartupFailureIsFatal ==
    /\ \A c \in Components :
         (runPc[c] = "done" /\ runErr[c] = "bindErr")
         => ~(mainPc = "wait" /\ ~ENABLED MainStep)
    /\ (wRunPc = "done" /\ wRunRes = "consumeErr")
         => ~(wMainPc = "wait" /\ ~ENABLED WMainStep)

(***************************************************************************)
(* C9.  When the termination trigger is a signal, no connection was ever   *)
(* accepted, nothing in the environment failed and the deadline has not    *)
(* expired, every Shutdown that has returned returned nil and every Run    *)
(* that has returned returned nil or the clean-close sentinel.             *)
(***************************************************************************)
C9_ImmediateSignalIsClean ==
    (/\ trigger = "signal"
     /\ \A c \in Components : ~accepted[c]
     /\ \A c \in Components : runErr[c] \notin {"bindErr", "acceptErr"}
     /\ httpLnErr = "nil"
     /\ ~deadlineFired)
    => \A c \in Components :
         /\ sdRes[c] \in {"none", "nil"}
         /\ runErr[c] \in {"none", "nil", "ErrServerClosed"}

(***************************************************************************)
(* C10.  Of HTTP, gRPC and the Worker: a Run that returned an error other  *)
(* than the clean-close sentinel has its error on the error channel main   *)
(* reads, and a Run ended by a clean shutdown has put nothing there.       *)
(***************************************************************************)
C10_RunErrorsForwarded ==
    /\ \A c \in Components :
         runPc[c] = "done" =>
            /\ runErr[c] \notin {"nil", "ErrServerClosed"} => OnErrorChannel(c)
            /\ runErr[c] \in CleanClose(c) => ~OnErrorChannel(c)
    /\ (wRunPc = "done" /\ wRunRes # "nil") => wRunRes \in WorkerErrorsForwarded

C12_TimedOutIsForceStopped ==
    \A c \in Components :
        (/\ ApiRunning
         /\ sdRes[c] = "ctxErr"
         /\ <<"Shutdown error", c>> \in Range(mainLog))
        => active[c] = 0

\* The deliveries of q that are messages of the broker (the zero Delivery a
\* closed channel yields is not one).
RealMsgs(q) == SelectSeq(q, LAMBDA m : m # 0)

\* Number of acknowledgment attempts made for message m.
AckAttempts(m) == Cardinality({i \in DOMAIN wAcks : wAcks[i][1] = m})

(***************************************************************************)
(* C13.  The Worker handles the messages of the delivery stream one at a   *)
(* time and in delivery order: the messages handled so far are the first   *)
(* ones delivered, in that order; every handled delivery but possibly the  *)
(* last has had its acknowledgment attempted, the attempts follow the      *)
(* processing steps one for one, and no message has more than one.         *)
(***************************************************************************)
C13_InOrderOneAtATime ==
    /\ \A i \in DOMAIN RealMsgs(wProcessed) : RealMsgs(wProcessed)[i] = i
    /\ Len(wAcks) <= Len(wProcessed)
    /\ Len(wProcessed) <= Len(wAcks) + 1
    /\ (wRunPc = "ack") = (Len(wProcessed) = Len(wAcks) + 1)
    /\ \A i \in DOMAIN wAcks : wAcks[i][1] = wProcessed[i]
    /\ \A m \in 1..MaxMsgs : AckAttempts(m) <= 1

\* C13 witness: three messages were delivered and each was processed and
\* acknowledged, in the order of delivery.
C13_Witness ==
    wAcks = << <<1, TRUE>>, <<2, TRUE>>, <<3, TRUE>> >>

(***************************************************************************)
(* C14.  Once cancel() has been called, Run starts no further message of   *)
(* the delivery stream.  Refuted by the code: the select has both cases    *)
(* ready and Go takes either.                                              *)
(***************************************************************************)
C14_NoMessageAfterCancel ==
    [][~(wCancelled /\ stream # <<>> /\ WRunReceive)]_vars

(***************************************************************************)
(* C15.  Run has returned only with nil after the cancellation, or with    *)
(* the error of Consume before any message was handled; every failed       *)
(* acknowledgment has been logged, and Run has not returned because of it. *)
(***************************************************************************)
C15_RunReturnsOnlyOnCancelOrConsume ==
    /\ wRunPc = "done" =>
         \/ wRunRes = "nil" /\ wCancelled /\ subscribed
         \/ wRunRes = "consumeErr" /\ ~subscribed /\ wProcessed = <<>>
    /\ wRunPc # "done" => wRunRes = "none"
    /\ wErrLogs = Cardinality({i \in DOMAIN wAcks : ~wAcks[i][2]})

\* C15 witness: the acknowledgment of a message of the broker failed, Run
\* went on to handle a later delivery, and it is still running.
C15_Witness ==
    /\ \E i \in DOMAIN wAcks :
         /\ wAcks[i][1] # 0
         /\ ~wAcks[i][2]
         /\ i < Len(wProcessed)
    /\ wRunPc \in {"select", "ack"}
    /\ wErrLogs >= 1

(***************************************************************************)
(* C16.  Scheduler.Run has started the timer loop once it waits, and has   *)
(* returned only after the cancellation and with the timer stopped; no     *)
(* firing begins after Run's Stop; and the scheduler process has not       *)
(* exited with the timer still running.  Refuted by the code in its last   *)
(* part: main returns right after cancel() without waiting for Run.        *)
(***************************************************************************)
C16_TimerStoppedBeforeExit ==
    /\ sRunPc \in {"waiting", "stopping"} => cronRunning
    /\ sRunPc = "returned" => sCancelled /\ ~cronRunning /\ cronLoop = "stopped"
    /\ firedAfterStop = 0
    /\ sMainPc = "exited" => ~cronRunning

\* Indices (0-based) of s that hold ch.
Positions(s, ch) == {i \in 0..(Len(s) - 1) : s[i + 1] = ch}

\* Some '@' at position >= 1 and some '.' after it that is not the last
\* character.
SomeAtSomeDot(e) ==
    \E i \in Positions(e, "@") :
        /\ i >= 1
        /\ \E j \in Positions(e, ".") : j > i /\ j # Len(e) - 1

\* The first '@' is at position >= 1 and the last '.' is after it and is
\* not the last character.
FirstAtLastDot(e) ==
    \E i \in Positions(e, "@") :
        /\ i >= 1
        /\ \A k \in Positions(e, "@") : k >= i
        /\ \E j \in Positions(e, ".") :
             /\ j > i
             /\ j # Len(e) - 1
             /\ \A k \in Positions(e, ".") : k <= j

AtThenNonTerminalDot(e) ==
    \E i \in Positions(e, "@") :
        \E j \in Positions(e, ".") : j > i /\ j # Len(e) - 1

\* The response is 201 with the payload's email and name and no password.
CreatedAsGiven ==
    /\ cr.resp.status = 201
    /\ "email" \in DOMAIN cr.resp.body
    /\ cr.resp.body["email"] = cr.email
    /\ "name" \in DOMAIN cr.resp.body
    /\ cr.resp.body["name"] = cr.name
    /\ "password" \notin DOMAIN cr.resp.body

ListedIds == IF last.body = "null" THEN {} ELSE {last.body[i]["id"] : i \in DOMAIN last.body}

(***************************************************************************)
(* C19.  With the store answering, getById, update (with a body that       *)
(* decodes) and delete on a non-empty id the store does not hold respond   *)
(* 404.  Refuted by the code for getById: the repository returns           *)
(* sql.ErrNoRows, which the handler answers with 500.                      *)
(***************************************************************************)
C19_AbsentIdIsNotFound ==
    (/\ last.op \in {"get", "update", "delete"}
     /\ last.id # 0
     /\ ~last.existed
     /\ last.dbOk
     /\ last.status # 400)
    => last.status = 404

(***************************************************************************)
(* C20.  With the store answering, a delete on an id the table holds is   *)
(* answered 204 and a delete on an id whose delete was answered 204        *)
(* before is answered 404; no id has had more than one delete answered     *)
(* 204; and an id whose delete was answered 204 is no longer in the        *)
(* table, in no list response and in no 200 of getById.                    *)
(***************************************************************************)
C20_DeleteOnceThenNotFound ==
    /\ (last.op = "delete" /\ last.existed /\ last.dbOk) => last.status = 204
    /\ \A i \in 1..MaxUsers :
         /\ delOk[i] <= 1
         /\ delOk[i] = 1 => i \notin StoredIds
    /\ (last.op = "delete" /\ last.deletedBefore /\ last.dbOk) => last.status = 404
    /\ (last.op = "delete" /\ last.status = 204) => ~last.deletedBefore
    /\ (last.op = "get" /\ last.deletedBefore) => last.status # 200
    /\ (last.op = "list" /\ last.status = 200) =>
         \A i \in ListedIds : delOk[i] = 0

\* C20 witness: a second delete of a user that was created and deleted is
\* answered 404, while another user is still in the table.
C20_Witness ==
    /\ last.op = "delete"
    /\ last.deletedBefore
    /\ last.dbOk
    /\ last.status = 404
    /\ delOk[last.id] = 1
    /\ StoredIds # {}

(***************************************************************************)
(* C21.  With the store answering, list responds 200 with an array that    *)
(* holds exactly the users of the table: the empty array when the table    *)
(* holds none.  Refuted by the code: the slice of UserRepository.List is   *)
(* nil when no row is read and is encoded as null.                         *)
(***************************************************************************)
C21_ListIsTheStore ==
    (last.op = "list" /\ last.dbOk) =>
        /\ last.status = 200
        /\ last.body # "null"
        /\ ListedIds = StoredIds

(***************************************************************************)
(* C22.  A create answered 201 carries an id generated by the repository   *)
(* and a created_at equal to its updated_at.  Refuted by the code: the     *)
(* repository reads the clock twice, and the clock may advance between.    *)
(***************************************************************************)
C22_CreatedEqualsUpdated ==
    (last.op = "create" /\ last.status = 201) =>
        /\ last.body["id"] # 0
        /\ last.body["id"] = nextId
        /\ last.body["created_at"] = last.body["updated_at"]

\* What an update leaves alone in the table: the other rows, and of its own
\* row the creation time and the password hash.
UpdateFrame(id) ==
    /\ DOMAIN users' = DOMAIN users
    /\ \A j \in DOMAIN users \ {id} : users'[j] = users[j]
    /\ users'[id].created_at = users[id].created_at
    /\ users'[id].password = users[id].password

(***************************************************************************)
(* C23.  An update answered 200 carries an updated_at greater than the     *)
(* one the row had and the created_at the row was created with, and in     *)
(* the table it leaves the id, the creation time and the password hash of  *)
(* the row, and every other row, as they were.  Refuted by the code: the   *)
(* body is the user the handler built, whose CreatedAt is the zero time.   *)
(***************************************************************************)
C23_UpdateKeepsCreation ==
    [][(last'.op = "update" /\ last'.status = 200) =>
          /\ last'.body["updated_at"] > users[last'.id].updated_at
          /\ last'.body["created_at"] = users[last'.id].created_at
          /\ UpdateFrame(last'.id)]_vars

\* The texts of the internal errors the store gives: a failure of the
\* database, and sql.ErrNoRows.
InternalErrorTexts == {"dbErr", "sql: no rows in result set"}

(***************************************************************************)
(* C24.  The body of a response with status 500 does not carry the text    *)
(* of the internal error.  Refuted by the code: respondError puts          *)
(* err.Error() in the body whatever the status.                            *)
(***************************************************************************)
C24_NoInternalTextInBody ==
    last.status = 500 => last.body["error"] \notin InternalErrorTexts

\* The connections the API process opened: per kind, the attempts that
\* opened one.
OpenedDb == {a \in Attempts : dbConn[a] # "none"}
OpenedAmqp == {a \in Attempts : amqpConn[a] # "none"}

\* The worker process has opened its connection.
WorkerConnected == wMainPc # "connect" /\ wExit # 1

\* C25: once a process has exited, every Data Store connection and every
\* Message Queue connection it opened at startup has been closed exactly
\* once, whether it exited after a graceful shutdown or by a fatal startup
\* error.
C25_ClosedExactlyOnceAtExit ==
    /\ stPc = "exited" =>
         /\ \A a \in OpenedDb : dbConn[a] = "closed" /\ dbCloseCalls[a] = 1
         /\ \A a \in OpenedAmqp : amqpConn[a] = "closed" /\ amqpCloseCalls[a] = 1
    /\ (wMainPc = "exited" /\ WorkerConnected) => mqCloseCalls = 1

\* C26: every user the store holds has a non-empty email that passes
\* isValidEmail, the check createUser applies, whatever requests were
\* served before.
C26_StoredEmailsValid ==
    \A id \in StoredIds :
        /\ users[id].email # <<>>
        /\ isValidEmail(users[id].email)

\* The goroutines of the API process that stand at a channel send, and the
\* room the channel has for it.
RunSendHasRoom(c) ==
    (runPc[c] = "returned" /\ Forwarded(c, runErr[c]))
        => Len(serverErrors) < ServerErrorsCap
ShutdownErrSendHasRoom(c) ==
    (sdPc[c] = "returned" /\ sdRes[c] # "nil")
        => Len(shutdownErrors) < ShutdownErrorsCap
ShutdownDoneSendHasRoom(c) ==
    sdPc[c] = "sendDone" => Len(shutdownDone) < ShutdownDoneCap

\* C27: in the API process no goroutine is blocked on a channel send:
\* whenever a Run goroutine is about to send to the error channel, or a
\* shutdown goroutine to the shutdown-error or shutdown-done channel, the
\* channel has room, whatever Run and Shutdown returned and whatever main
\* has received.
C27_SendsNeverBlock ==
    \A c \in Components :
        /\ RunSendHasRoom(c)
        /\ ShutdownErrSendHasRoom(c)
        /\ ShutdownDoneSendHasRoom(c)

\* Both Run goroutines have sent their error, main took the signal and so
\* none of them, and a shutdown goroutine has sent an error and its done.
C27_Witness ==
    /\ trigger = "signal"
    /\ Len(serverErrors) = ServerErrorsCap
    /\ \A c \in Components : runPc[c] = "done"
    /\ \E c \in Components : sdPc[c] = "done" /\ sdRes[c] # "nil"

\* C28: Worker.Run processes and acknowledges only messages the broker
\* delivered: no zero-value message taken from the closed delivery stream
\* is processed or acknowledged.
C28_OnlyDeliveredMessagesHandled ==
    /\ \A i \in 1..Len(wProcessed) : wProcessed[i] # 0
    /\ \A i \in 1..Len(wAcks) : wAcks[i][1] # 0

\* C29: in the worker process RabbitMQ.Close has been called only if
\* Worker.Run has returned: Close never happens while Run is consuming,
\* waiting, processing or acknowledging.
C29_CloseOnlyAfterRunReturned ==
    mqCloseCalls > 0 => wRunPc = "done"

\* Server.Shutdown of the gRPC transport, waiting in its select, has a case
\* to take, or the deadline of its context is still to expire: the guards
\* of GRPCShutdownDone, GRPCShutdownTimeout and DeadlineExpires.
GRPCShutdownCanReturn ==
    \/ DoneReceivable
    \/ deadlineFired
    \/ ctxCreated /\ ~deadlineFired

\* The goroutine Shutdown spawned has ended, or its next step needs nothing
\* from anyone else: the guards of GracefulStopBegin, GracefulStopEnd and
\* HelperCloseDone.
HelperCanFinish ==
    \/ helperPc \in {"exit", "start", "stopped"}
    \/ helperPc = "draining" /\ NoConnLeft

=============================================================================
